---------------------------- MODULE Spec2Model ----------------------------
(***************************************************************************)
(* Model of dataflow_pipeline.py: the Apache Beam pipeline that reads JSON *)
(* events from Pub/Sub, parses them (ParseJson), routes them by event_type *)
(* to three BigQuery tables (run), and the archive-key DoFn (WriteToGCS).  *)
(*                                                                         *)
(* Text is modelled as sequences of one-character strings, a JSON value as *)
(* a tagged record, a JSON object / Python dict as a function from keys to *)
(* JSON values, a datetime as a record of its fields.                      *)
(***************************************************************************)
EXTENDS Integers, Sequences, FiniteSets, TLC

VARIABLES
    now,        \* the wall clock: index of the reading datetime.utcnow() returns
    events,     \* the PCollection `events` (output of 'Parse JSON'), in arrival order
    parseLog,   \* history of ParseJson.process calls: input, outputs, errors logged
    pos,        \* per branch, how many elements of `events` its Filter has consumed
    bq,         \* the three BigQuery tables, each a sequence of appended rows
    gcs,        \* blobs written to the bucket by the pipeline built by run()
    lastCall,   \* the latest call of WriteToGCS.process: input, time, result (<<>>: none yet)
    platform    \* the C library behind strftime in the interpreter that runs the code

vars == <<now, events, parseLog, pos, bq, gcs, lastCall, platform>>

-----------------------------------------------------------------------------
(* Bounds of the model *)

MaxClock == 1
MaxMessages == 2

-----------------------------------------------------------------------------
(* Text *)

DigitChars == <<"0", "1", "2", "3", "4", "5", "6", "7", "8", "9">>

IsDigit(c) == \E i \in 1..10 : DigitChars[i] = c

DigitVal(c) == (CHOOSE i \in 1..10 : DigitChars[i] = c) - 1

RECURSIVE Digits(_)
\* decimal digits of a natural number, no padding
Digits(n) == IF n < 10 THEN <<DigitChars[n + 1]>>
             ELSE Digits(n \div 10) \o <<DigitChars[(n % 10) + 1]>>

RECURSIVE Pad(_, _)
\* format spec 0Nd: zero-filled to at least w characters
Pad(n, w) == LET d == Digits(n)
             IN IF Len(d) >= w THEN d ELSE <<"0">> \o Pad(n, w - 1)

RECURSIVE DigitsValue(_)
\* int() of a string of digits
DigitsValue(s) == IF s = <<>> THEN 0
                  ELSE 10 * DigitsValue(SubSeq(s, 1, Len(s) - 1)) + DigitVal(s[Len(s)])

AllDigits(s) == \A i \in 1..Len(s) : IsDigit(s[i])

\* str.replace(old, '') for a one-character old
Replace(s, old) == SelectSeq(s, LAMBDA c : c # old)

-----------------------------------------------------------------------------
(* datetime *)

DateTime(y, mo, d, h, mi, s, us, aware, off) ==
    [year |-> y, month |-> mo, day |-> d, hour |-> h, minute |-> mi,
     second |-> s, microsecond |-> us, aware |-> aware, offset |-> off]

\* The readings of the wall clock, a second and a half apart:
\* datetime.utcnow() returns a naive datetime with microsecond resolution.
UtcNow(n) == DateTime(2026, 3, 7, 8, 9, n + (n \div 2), 500000 * (n % 2), FALSE, 0)

IsLeap(y) == y % 4 = 0 /\ (y % 100 # 0 \/ y % 400 = 0)

DaysInMonth(y, mo) == IF mo = 2 THEN (IF IsLeap(y) THEN 29 ELSE 28)
                      ELSE IF mo \in {4, 6, 9, 11} THEN 30 ELSE 31

\* datetime.isoformat(): YYYY-MM-DDTHH:MM:SS, with .ffffff when microsecond # 0
\* (a naive datetime carries no offset suffix)
IsoFormat(dt) ==
    Pad(dt.year, 4) \o <<"-">> \o Pad(dt.month, 2) \o <<"-">> \o Pad(dt.day, 2)
    \o <<"T">> \o Pad(dt.hour, 2) \o <<":">> \o Pad(dt.minute, 2)
    \o <<":">> \o Pad(dt.second, 2)
    \o (IF dt.microsecond # 0 THEN <<".">> \o Pad(dt.microsecond, 6) ELSE <<>>)

\* The part of an ISO string after the date and its separator, split at the
\* first sign character into the time and the UTC offset.
SignAt(t) == IF \E i \in 1..Len(t) : t[i] \in {"+", "-"}
             THEN CHOOSE i \in 1..Len(t) :
                     /\ t[i] \in {"+", "-"}
                     /\ \A j \in 1..(i - 1) : t[j] \notin {"+", "-"}
             ELSE 0

\* HH[:MM[:SS[.fff[fff]]]]
TimeOk(t) ==
    /\ Len(t) \in {2, 5, 8, 12, 15}
    /\ \A i \in 1..Len(t) :
          IF i \in {3, 6} THEN t[i] = ":"
          ELSE IF i = 9 THEN t[i] = "."
          ELSE IsDigit(t[i])

TimeField(t, from, to) == IF Len(t) >= to THEN DigitsValue(SubSeq(t, from, to)) ELSE 0

Micro(t) == IF Len(t) = 15 THEN DigitsValue(SubSeq(t, 10, 15))
            ELSE IF Len(t) = 12 THEN 1000 * DigitsValue(SubSeq(t, 10, 12))
            ELSE 0

\* +HH:MM or -HH:MM
OffsetOk(z) ==
    /\ Len(z) = 6
    /\ z[1] \in {"+", "-"}
    /\ IsDigit(z[2]) /\ IsDigit(z[3]) /\ z[4] = ":" /\ IsDigit(z[5]) /\ IsDigit(z[6])
    /\ DigitsValue(SubSeq(z, 2, 3)) < 24
    /\ DigitsValue(SubSeq(z, 5, 6)) < 60

OffsetMinutes(z) ==
    LET m == 60 * DigitsValue(SubSeq(z, 2, 3)) + DigitsValue(SubSeq(z, 5, 6))
    IN IF z[1] = "-" THEN 0 - m ELSE m

DateOk(s) ==
    /\ Len(s) >= 10
    /\ AllDigits(SubSeq(s, 1, 4)) /\ s[5] = "-"
    /\ AllDigits(SubSeq(s, 6, 7)) /\ s[8] = "-"
    /\ AllDigits(SubSeq(s, 9, 10))

\* datetime.fromisoformat(s): [ok |-> TRUE, dt |-> the datetime], or
\* [ok |-> FALSE, ...] when it raises ValueError.  The grammar is
\* YYYY-MM-DD[*HH[:MM[:SS[.fff[fff]]]][+HH:MM]], the format isoformat() emits.
FromIsoFormat(s) ==
    LET bad  == [ok |-> FALSE, dt |-> UtcNow(0)]
        rest == IF Len(s) > 11 THEN SubSeq(s, 12, Len(s)) ELSE <<>>
        cut  == SignAt(rest)
        t    == IF cut = 0 THEN rest ELSE SubSeq(rest, 1, cut - 1)
        z    == IF cut = 0 THEN <<>> ELSE SubSeq(rest, cut, Len(rest))
    IN IF ~DateOk(s) THEN bad
       ELSE IF Len(s) > 10 /\ ~TimeOk(t) THEN bad
       ELSE IF cut # 0 /\ ~OffsetOk(z) THEN bad
       ELSE LET y  == DigitsValue(SubSeq(s, 1, 4))
                mo == DigitsValue(SubSeq(s, 6, 7))
                d  == DigitsValue(SubSeq(s, 9, 10))
                h  == TimeField(t, 1, 2)
                mi == TimeField(t, 4, 5)
                se == TimeField(t, 7, 8)
            IN IF \/ y < 1 \/ mo < 1 \/ mo > 12
                  \/ d < 1 \/ d > DaysInMonth(y, mo)
                  \/ h > 23 \/ mi > 59 \/ se > 59
               THEN bad
               ELSE [ok |-> TRUE,
                     dt |-> DateTime(y, mo, d, h, mi, se, Micro(t), cut # 0,
                                     IF cut # 0 THEN OffsetMinutes(z) ELSE 0)]

-----------------------------------------------------------------------------
(* JSON values, Python dicts, Pub/Sub payloads *)

Str(s) == [t |-> "str", s |-> s, n |-> 0]
Num(n) == [t |-> "num", s |-> <<>>, n |-> n]
EmptyObject == [t |-> "object", s |-> <<>>, n |-> 0]
\* JSON null, Python None
None == [t |-> "null", s |-> <<>>, n |-> 0]

EmptyDict == [k \in {} |-> None]

\* dict.get(key): the value, or None when the key is missing
Get(d, key) == IF key \in DOMAIN d THEN d[key] ELSE None

\* d[key] = value on a dict: adds the key or overwrites its value
SetItem(d, key, value) ==
    [k \in (DOMAIN d) \cup {key} |-> IF k = key THEN value ELSE d[k]]

\* str(v), as an f-string field formats it
Format(v) == CASE v.t = "str" -> v.s
               [] v.t = "num" -> Digits(v.n)
               [] v.t = "null" -> <<"N", "o", "n", "e">>
               [] OTHER -> <<"{", "}">>

\* A JSON text: well-formed or not, the kind of its top-level value and, for
\* an object, its members.
JsonText(wellformed, top, obj) == [wellformed |-> wellformed, top |-> top, obj |-> obj]

\* A byte payload: valid UTF-8 or not, and the text it encodes.
Bytes(utf8, text) == [utf8 |-> utf8, text |-> text]

\* json.dumps(dict).encode('utf-8')
Encode(obj) == Bytes(TRUE, JsonText(TRUE, "object", obj))

\* json.dumps(element)
JsonDumps(element) == JsonText(TRUE, "object", element)

-----------------------------------------------------------------------------
(* 1.0 ParseJson *)

NoException == "none"

\* The body of the try block of ParseJson.process, run at clock reading n:
\* the exception it raises (NoException when it completes) and the dict it
\* has built.
ParseJsonTry(element, n) ==
    IF ~element.utf8
    THEN [exc |-> "UnicodeDecodeError", data |-> EmptyDict]
    ELSE IF ~element.text.wellformed
    THEN [exc |-> "JSONDecodeError", data |-> EmptyDict]
    ELSE IF element.text.top # "object"
    \* item assignment on a list, str, int, bool or None
    THEN [exc |-> "TypeError", data |-> EmptyDict]
    ELSE [exc |-> NoException,
          data |-> SetItem(element.text.obj, "created_at", Str(IsoFormat(UtcNow(n))))]

\* except ValueError
ParseJsonCatchesValueError(exc) == exc \in {"UnicodeDecodeError", "JSONDecodeError"}

\* except Exception: every exception the try block can raise is an Exception
ParseJsonCatches(exc) == exc \in {"UnicodeDecodeError", "JSONDecodeError", "TypeError"}

\* ParseJson.process(element) at clock reading n: the elements it yields, the
\* number of logging.error calls, and the exception that escapes it.
ParseJsonProcess(element, n) ==
    LET r == ParseJsonTry(element, n)
    IN IF r.exc = NoException
       THEN [out |-> <<r.data>>, errors |-> 0, raised |-> NoException]
       ELSE IF ParseJsonCatches(r.exc)
       THEN [out |-> <<>>, errors |-> 1, raised |-> NoException]
       ELSE [out |-> <<>>, errors |-> 0, raised |-> r.exc]

-----------------------------------------------------------------------------
(* 2.0 WriteToGCS *)

Order == <<"o", "r", "d", "e", "r">>
Inventory == <<"i", "n", "v", "e", "n", "t", "o", "r", "y">>
UserActivity == <<"u", "s", "e", "r", "_", "a", "c", "t", "i", "v", "i", "t", "y">>

\* lines 58-61: the field that holds the event time
TsStr(element) ==
    IF Get(element, "event_type") = Str(Order)
    THEN Get(element, "order_date")
    ELSE Get(element, "timestamp")

\* line 65, the try block: the exception it raises (AttributeError when
\* ts_str has no replace method, i.e. is not a str; ValueError when the string
\* does not parse) and the datetime it has parsed
TsTry(ts_str) ==
    IF ts_str.t # "str"
    THEN [exc |-> "AttributeError", ts |-> UtcNow(0)]
    ELSE LET r == FromIsoFormat(Replace(ts_str.s, "Z"))
         IN IF r.ok THEN [exc |-> NoException, ts |-> r.dt]
            ELSE [exc |-> "ValueError", ts |-> UtcNow(0)]

\* except ValueError
TsCatchesValueError(exc) == exc = "ValueError"

\* line 66, a bare except: it catches whatever the try block raises
TsCatches(exc) == TRUE

\* line 67: the fallback timestamp, the clock reading at the time of the call
TsFallback(element, n) == UtcNow(n)

\* the path without the zero padding of its segments
PathUnpadded(event_type, ts) ==
    Format(event_type) \o <<"/">> \o Digits(ts.year) \o <<"/">> \o Digits(ts.month)
    \o <<"/">> \o Digits(ts.day) \o <<"/">> \o Digits(ts.hour) \o <<"/">>
    \o Digits(ts.minute) \o <<"/">>

\* line 70
Path(event_type, ts) ==
    Format(event_type) \o <<"/">> \o Pad(ts.year, 4) \o <<"/">> \o Pad(ts.month, 2)
    \o <<"/">> \o Pad(ts.day, 2) \o <<"/">> \o Pad(ts.hour, 2) \o <<"/">>
    \o Pad(ts.minute, 2) \o <<"/">>

\* line 71, with the year as this build's strftime('%Y') gives it
Filename(event_type, ts, year) ==
    Format(event_type) \o <<"_">> \o year \o Pad(ts.month, 2) \o Pad(ts.day, 2)
    \o Pad(ts.hour, 2) \o Pad(ts.minute, 2) \o Pad(ts.second, 2)
    \o <<".", "j", "s", "o", "n">>

\* strftime('%Y') of this build: glibc leaves a year below 1000 unpadded
Year(ts, libc) == IF libc = "glibc" THEN Digits(ts.year) ELSE Pad(ts.year, 4)

\* WriteToGCS.process(element) at clock reading n: the tagged outputs it
\* yields and the exception that escapes it.
WriteToGCSProcess(element, n, libc) ==
    LET event_type == Get(element, "event_type")
        r == TsTry(TsStr(element))
        ts == IF r.exc = NoException THEN r.ts ELSE TsFallback(element, n)
    IN IF r.exc # NoException /\ ~TsCatches(r.exc)
       THEN [out |-> <<>>, raised |-> r.exc]
       ELSE [out |-> << [tag |-> "gcs",
                         key |-> Path(event_type, ts)
                                 \o Filename(event_type, ts, Year(ts, libc)),
                         body |-> JsonDumps(element)] >>,
             raised |-> NoException]

-----------------------------------------------------------------------------
(* Messages on the topic *)

\* test_publish.py: the three test events, published at clock reading n.
\* The nested items, shipping_address and metadata members are JSON objects.
PublishOrderEvent(n) ==
    Encode([k \in {"event_type", "order_date", "status", "items"} |->
              CASE k = "event_type" -> Str(Order)
                [] k = "order_date" -> Str(IsoFormat(UtcNow(n)) \o <<"Z">>)
                [] k = "status" -> Str(<<"p", "e", "n", "d", "i", "n", "g">>)
                [] OTHER -> EmptyObject])

PublishInventoryEvent(n) ==
    Encode([k \in {"event_type", "quantity_change", "timestamp"} |->
              CASE k = "event_type" -> Str(Inventory)
                [] k = "quantity_change" -> Num(5)
                [] OTHER -> Str(IsoFormat(UtcNow(n)) \o <<"Z">>)])

PublishUserActivityEvent(n) ==
    Encode([k \in {"event_type", "timestamp", "metadata"} |->
              CASE k = "event_type" -> Str(UserActivity)
                [] k = "timestamp" -> Str(IsoFormat(UtcNow(n)) \o <<"Z">>)
                [] OTHER -> EmptyObject])

\* An event of the given type whose event-time field `field` holds `value`
Event(event_type, field, value) ==
    Encode([k \in {"event_type", field} |->
              IF k = "event_type" THEN event_type ELSE value])

Refund == <<"r", "e", "f", "u", "n", "d">>

\* What a subscriber of the topic can receive: the test publisher's events,
\* events of an unknown type or without one, an order that carries its own
\* created_at, and payloads that are not UTF-8 JSON objects.
PubSubMessages ==
    { PublishOrderEvent(0), PublishInventoryEvent(0), PublishUserActivityEvent(0),
      Event(Str(Refund), "timestamp", Str(IsoFormat(UtcNow(0)))),
      Encode([k \in {"timestamp"} |-> Str(IsoFormat(UtcNow(0)))]),
      Event(Str(Order), "created_at", Str(<<"2", "0", "2", "0">>)),
      Bytes(FALSE, JsonText(TRUE, "object", EmptyDict)),
      Bytes(TRUE, JsonText(FALSE, "object", EmptyDict)) }
    \cup { Bytes(TRUE, JsonText(TRUE, top, EmptyDict)) :
              top \in {"array", "string", "number", "boolean", "null"} }

-----------------------------------------------------------------------------
(* The pipeline built by run() *)

Tables == {"orders", "inventory", "user_activity"}

\* lines 108, 120, 132: the category each branch filters for
Category(table) == CASE table = "orders" -> Order
                     [] table = "inventory" -> Inventory
                     [] table = "user_activity" -> UserActivity

\* a filter that tests the presence of event_type, not its value
FilterPredicateAnyType(x, category) == Get(x, "event_type") # None

\* beam.Filter(lambda x: x.get('event_type') == category)
FilterPredicate(x, category) == Get(x, "event_type") = Str(category)

\* write_disposition=WRITE_TRUNCATE
WriteTruncate(rows, row) == <<row>>

\* WriteToBigQuery(table, write_disposition=WRITE_APPEND) of one row
WriteToBigQuery(rows, row) == Append(rows, row)

Init ==
    /\ now = 0
    /\ events = <<>>
    /\ parseLog = <<>>
    /\ pos = [t \in Tables |-> 0]
    /\ bq = [t \in Tables |-> <<>>]
    /\ gcs = {}
    /\ lastCall = <<>>
    /\ platform = "glibc"

\* Time passes.
Tick ==
    /\ now < MaxClock
    /\ now' = now + 1
    /\ UNCHANGED <<events, parseLog, pos, bq, gcs, lastCall, platform>>

\* 'Read Pub/Sub' delivers a message and 'Parse JSON' processes it.
ParseJSON(messages) ==
    /\ Len(parseLog) < MaxMessages
    /\ \E element \in messages :
          LET r == ParseJsonProcess(element, now)
          IN /\ events' = events \o r.out
             /\ parseLog' = Append(parseLog, [element |-> element, at |-> now,
                                              result |-> r])
    /\ UNCHANGED <<now, pos, bq, gcs, lastCall, platform>>

\* A branch takes the next element of `events`: its Filter keeps or drops it
\* and WriteToBigQuery appends what is kept to the branch's table.
Branch(table) ==
    /\ pos[table] < Len(events)
    /\ LET x == events[pos[table] + 1]
       IN bq' = IF FilterPredicate(x, Category(table))
                THEN [bq EXCEPT ![table] = WriteToBigQuery(bq[table], x)]
                ELSE bq
    /\ pos' = [pos EXCEPT ![table] = pos[table] + 1]
    /\ UNCHANGED <<now, events, parseLog, gcs, lastCall, platform>>

FilterOrders == Branch("orders")

FilterInventory == Branch("inventory")

FilterActivity == Branch("user_activity")

Next ==
    \/ Tick
    \/ ParseJSON(PubSubMessages)
    \/ FilterOrders
    \/ FilterInventory
    \/ FilterActivity

Spec == Init /\ [][Next]_vars

-----------------------------------------------------------------------------
(* WriteToGCS.process applied to decoded events *)

\* WriteToGCS.process is called on a decoded event, at the current time.
ApplyWriteToGCS ==
    /\ \E i \in 1..Len(events) :
          lastCall' = << [element |-> events[i], at |-> now,
                          result |-> WriteToGCSProcess(events[i], now, platform)] >>
    /\ UNCHANGED <<now, events, parseLog, pos, bq, gcs, platform>>

\* Events whose event-time field is malformed, has another JSON type or is
\* missing, for known, unknown and missing types.
FallbackMessages ==
    { Event(Str(Inventory), "timestamp",
            Str(<<"b", "a", "d", "-", "v", "a", "l", "u", "e">>)),
      Encode([k \in {"event_type"} |-> Str(Inventory)]),
      Event(Str(UserActivity), "timestamp", None),
      Event(Str(UserActivity), "timestamp", Num(7)),
      Event(Str(UserActivity), "timestamp", EmptyObject),
      Event(Str(Order), "timestamp", Str(IsoFormat(UtcNow(0)))),
      Event(Str(Refund), "timestamp",
            Str(<<"2", "0", "2", "5", "-", "1", "3", "-", "0", "1">>)),
      Encode([k \in {"timestamp"} |-> Str(IsoFormat(UtcNow(0)))]) }

FallbackNext ==
    \/ Tick
    \/ ParseJSON(FallbackMessages)
    \/ ApplyWriteToGCS

FallbackSpec == Init /\ [][FallbackNext]_vars

\* Events whose event-time field is a parsable ISO string: with and without
\* the Z marker, with a fraction of a second, with a UTC offset, with
\* one-digit fields and a three-digit year, and the test publisher's.
KeyMessages ==
    { Event(Str(Order), "order_date",
            Str(<<"2", "0", "2", "5", "-", "1", "1", "-", "0", "4", "T",
                  "1", "4", ":", "3", "0", ":", "0", "0", "Z">>)),
      Event(Str(Order), "order_date",
            Str(<<"2", "0", "2", "5", "-", "1", "1", "-", "0", "4", "T",
                  "1", "4", ":", "3", "0", ":", "0", "0", ".", "5", "0", "0",
                  "0", "0", "0", "Z">>)),
      Event(Str(Order), "order_date",
            Str(<<"2", "0", "2", "5", "-", "1", "1", "-", "0", "4", "T",
                  "1", "5", ":", "0", "0", ":", "0", "0", "+", "0", "5", ":",
                  "0", "0">>)),
      Event(Str(Order), "order_date",
            Str(<<"2", "0", "2", "5", "-", "1", "1", "-", "0", "4", "T",
                  "1", "9", ":", "0", "0", ":", "0", "0", "+", "0", "5", ":",
                  "0", "0">>)),
      Event(Str(Order), "order_date",
            Str(<<"0", "9", "9", "9", "-", "0", "1", "-", "0", "2", "T",
                  "0", "3", ":", "0", "4", ":", "0", "5", "Z">>)),
      Event(Str(Order), "order_date",
            Str(<<"2", "0", "2", "5", "-", "0", "2", "-", "0", "3", "T",
                  "0", "4", ":", "0", "5", ":", "0", "6">>)),
      PublishInventoryEvent(1) }

\* The interpreter that runs the code is linked against glibc or not.
KeyInit ==
    /\ now = 0
    /\ events = <<>>
    /\ parseLog = <<>>
    /\ pos = [t \in Tables |-> 0]
    /\ bq = [t \in Tables |-> <<>>]
    /\ gcs = {}
    /\ lastCall = <<>>
    /\ platform \in {"glibc", "other"}

KeyNext ==
    \/ Tick
    \/ ParseJSON(KeyMessages)
    \/ ApplyWriteToGCS

KeySpec == KeyInit /\ [][KeyNext]_vars

-----------------------------------------------------------------------------
(* Vocabulary of the properties *)

Range(f) == {f[i] : i \in DOMAIN f}

IsPrefix(a, b) == Len(a) <= Len(b) /\ SubSeq(b, 1, Len(a)) = a

KnownCategories == {Order, Inventory, UserActivity}

\* The payload is a UTF-8 encoded JSON text whose top-level value is an object.
IsJsonObject(b) == b.utf8 /\ b.text.wellformed /\ b.text.top = "object"

\* The event's event_type is the string c.
HasType(x, c) == "event_type" \in DOMAIN x /\ x["event_type"] = Str(c)

Recognized(x) == \E c \in KnownCategories : HasType(x, c)

\* Every branch has consumed every decoded event.
Quiescent == \A t \in Tables : pos[t] = Len(events)

\* The characters of the model's texts, in code point order.
Alphabet == <<"+", "-", ".", "/", "0", "1", "2", "3", "4", "5", "6", "7", "8",
              "9", ":", "N", "T", "Z", "_", "a", "c", "d", "e", "f", "i", "j",
              "l", "n", "o", "p", "r", "s", "t", "u", "v", "y", "{", "}">>

CodePoint(c) == CHOOSE i \in 1..Len(Alphabet) : Alphabet[i] = c

RECURSIVE LexLess(_, _)
\* a sorts strictly before b, character by character
LexLess(a, b) ==
    IF b = <<>> THEN FALSE
    ELSE IF a = <<>> THEN TRUE
    ELSE IF a[1] # b[1] THEN CodePoint(a[1]) < CodePoint(b[1])
    ELSE LexLess(Tail(a), Tail(b))

\* The archive key format of the specification, every numeric segment
\* zero-padded: c/YYYY/MM/DD/HH/mm/c_YYYYMMDDHHMMSS.json
KeyFormat(c, dt) ==
    c \o <<"/">> \o Pad(dt.year, 4) \o <<"/">> \o Pad(dt.month, 2) \o <<"/">>
      \o Pad(dt.day, 2) \o <<"/">> \o Pad(dt.hour, 2) \o <<"/">>
      \o Pad(dt.minute, 2) \o <<"/">> \o c \o <<"_">>
      \o Pad(dt.year, 4) \o Pad(dt.month, 2) \o Pad(dt.day, 2)
      \o Pad(dt.hour, 2) \o Pad(dt.minute, 2) \o Pad(dt.second, 2)
      \o <<".", "j", "s", "o", "n">>

\* The event-time field of an event: order_date for an order, timestamp otherwise.
EventTimeField(x) == IF HasType(x, Order) THEN "order_date" ELSE "timestamp"

\* The event-time field is present, a string, and parses once its Z is dropped.
HasEventTime(x) ==
    /\ EventTimeField(x) \in DOMAIN x
    /\ x[EventTimeField(x)].t = "str"
    /\ FromIsoFormat(Replace(x[EventTimeField(x)].s, "Z")).ok

EventTime(x) == FromIsoFormat(Replace(x[EventTimeField(x)].s, "Z")).dt

\* The timestamp the Decoder attached to the event.
IngestedAt(x) == FromIsoFormat(x["created_at"].s).dt

\* Days from 0001-01-01 to the given date.
DaysBeforeYear(y) == (y - 1) * 365 + (y - 1) \div 4 - (y - 1) \div 100 + (y - 1) \div 400

RECURSIVE DaysBeforeMonth(_, _)
DaysBeforeMonth(y, mo) == IF mo = 1 THEN 0
                          ELSE DaysBeforeMonth(y, mo - 1) + DaysInMonth(y, mo - 1)

\* The instant a datetime denotes, as <<minutes since 0001-01-01T00:00 UTC,
\* second, microsecond>>; a datetime without offset is taken as UTC.
Instant(dt) ==
    << (DaysBeforeYear(dt.year) + DaysBeforeMonth(dt.year, dt.month) + dt.day - 1) * 1440
       + dt.hour * 60 + dt.minute - dt.offset,
       dt.second, dt.microsecond >>

Earlier(a, b) ==
    LET x == Instant(a)
        y == Instant(b)
    IN \/ x[1] < y[1]
       \/ x[1] = y[1] /\ x[2] < y[2]
       \/ x[1] = y[1] /\ x[2] = y[2] /\ x[3] < y[3]

\* The two datetimes agree down to the whole second.
SameSecond(a, b) == Instant(a)[1] = Instant(b)[1] /\ Instant(a)[2] = Instant(b)[2]

\* The archive key WriteToGCS.process derives for x when called now.
KeyNow(x) == WriteToGCSProcess(x, now, platform).out[1].key

-----------------------------------------------------------------------------
(* Properties of the pipeline built by run() *)

\* C1 (dual-sink fan-out): once every branch has consumed every decoded
\* event, each event of a known category has both a row in the table of its
\* category and a blob in the archive, stored under a key WriteToGCS.process
\* derives for it and holding the serialized event.
C1_DualSinkFanOut ==
    Quiescent =>
        \A i \in DOMAIN events : \A t \in Tables :
            HasType(events[i], Category(t)) =>
                /\ events[i] \in Range(bq[t])
                /\ \E b \in gcs : \E n \in 0..now :
                      LET o == WriteToGCSProcess(events[i], n, platform).out[1]
                      IN b.key = o.key /\ b.body = o.body

\* C2 (routing): each table holds exactly the consumed events whose event_type
\* is its category, in order, so no event is in two tables; an event whose
\* event_type is missing or unknown is in no table and in no archive blob.
C2_Routing ==
    /\ \A t \in Tables :
          bq[t] = SelectSeq(SubSeq(events, 1, pos[t]),
                            LAMBDA x : HasType(x, Category(t)))
    /\ \A t1 \in Tables : \A t2 \in Tables \ {t1} :
          Range(bq[t1]) \cap Range(bq[t2]) = {}
    /\ \A i \in DOMAIN events :
          ~Recognized(events[i]) =>
              /\ \A t \in Tables : events[i] \notin Range(bq[t])
              /\ \A b \in gcs : b.body # JsonDumps(events[i])

\* An order and an event of unknown or missing type have been decoded and
\* consumed by every branch; the order is in the orders table.
C2_Witness ==
    /\ Quiescent
    /\ \E i \in DOMAIN events : \E j \in DOMAIN events :
          /\ HasType(events[i], Order)
          /\ events[i] \in Range(bq["orders"])
          /\ ~Recognized(events[j])

\* C3 (poison-message isolation): a payload that is not a UTF-8 JSON object
\* yields no event, exactly one logged error and no escaping exception, and
\* every payload that is one, whatever preceded it, yields one event; the
\* PCollection is exactly the events of the well-formed messages, in order.
C3_PoisonIsolation ==
    /\ \A i \in DOMAIN parseLog :
          LET c == parseLog[i]
          IN IF IsJsonObject(c.element)
             THEN Len(c.result.out) = 1 /\ c.result.errors = 0
                  /\ c.result.raised = NoException
             ELSE c.result.out = <<>> /\ c.result.errors = 1
                  /\ c.result.raised = NoException
    /\ Len(events) = Cardinality({i \in DOMAIN parseLog : IsJsonObject(parseLog[i].element)})

\* A message that is not a JSON object was followed by one that is, which
\* was decoded.
C3_Witness ==
    /\ Len(parseLog) = 2
    /\ ~IsJsonObject(parseLog[1].element)
    /\ parseLog[1].element.text.top = "array"
    /\ IsJsonObject(parseLog[2].element)
    /\ Len(events) = 1

\* C4 (decode success): a JSON object with a recognized event_type yields
\* exactly one event, of that type, whose keys are the object's keys plus
\* created_at and whose values for the object's keys are the object's values.
C4_DecodeSuccess ==
    \A i \in DOMAIN parseLog :
        LET c == parseLog[i]
            obj == c.element.text.obj
        IN (IsJsonObject(c.element) /\ Recognized(obj)) =>
              /\ Len(c.result.out) = 1
              /\ c.result.out[1]["event_type"] = obj["event_type"]
              /\ DOMAIN c.result.out[1] = (DOMAIN obj) \cup {"created_at"}
              /\ \A k \in DOMAIN obj : c.result.out[1][k] = obj[k]

\* The number of messages delivered so far that carry an event of table t's
\* category.
Deliveries(t) ==
    Cardinality({i \in DOMAIN parseLog :
                    /\ IsJsonObject(parseLog[i].element)
                    /\ HasType(parseLog[i].element.text.obj, Category(t))})

\* C9 (append-only tables under redelivery): a step never removes or changes
\* a row and adds at most one; the rows of a table are as many as the
\* deliveries of its category that its branch has consumed, so k deliveries
\* of a message yield k rows; no exception escapes ParseJson.
C9_AppendOnly ==
    /\ [][\A t \in Tables : /\ IsPrefix(bq[t], bq'[t])
                            /\ Len(bq'[t]) <= Len(bq[t]) + 1]_vars
    /\ [](\A t \in Tables :
             /\ Len(bq[t]) <= Deliveries(t)
             /\ pos[t] = Len(events) => Len(bq[t]) = Deliveries(t))
    /\ [](\A i \in DOMAIN parseLog : parseLog[i].result.raised = NoException)

\* The same order message was delivered twice and the orders table holds two
\* rows.
C9_Witness ==
    /\ Len(parseLog) = 2
    /\ parseLog[1].element = parseLog[2].element
    /\ IsJsonObject(parseLog[1].element)
    /\ HasType(parseLog[1].element.text.obj, Order)
    /\ Len(bq["orders"]) = 2

-----------------------------------------------------------------------------
(* Properties of WriteToGCS.process *)

\* C5 (timestamp fallback): when the event-time field of the event is
\* missing, not a string or unparsable, the key derived is the key format
\* filled with the created_at the Decoder attached to the event.
C5_FallbackUsesIngestedAt ==
    \A i \in DOMAIN lastCall :
        LET x == lastCall[i].element
        IN ~HasEventTime(x) =>
              /\ Len(lastCall[i].result.out) = 1
              /\ lastCall[i].result.out[1].key
                    = KeyFormat(Format(Get(x, "event_type")), IngestedAt(x))

\* C6 (the key is a function of the event alone): deriving the key again,
\* now, for the event of the latest call gives the key that call gave.
C6_KeyIsPure ==
    \A i \in DOMAIN lastCall :
        WriteToGCSProcess(lastCall[i].element, now, platform).out
            = lastCall[i].result.out

\* C10 (the deriver is total): whatever the event_type and the event-time
\* field of the event, the call raises nothing and yields exactly one output,
\* tagged gcs, whose value is a key and the serialized event.
C10_Total ==
    \A i \in DOMAIN lastCall :
        LET r == lastCall[i].result
        IN /\ r.raised = NoException
           /\ Len(r.out) = 1
           /\ r.out[1].tag = "gcs"
           /\ r.out[1].key # <<>>
           /\ r.out[1].body = JsonDumps(lastCall[i].element)

\* The call was made on an event without event_type whose timestamp is not a
\* string, or on one of unknown type whose timestamp does not parse.
C10_Witness ==
    \E i \in DOMAIN lastCall :
        LET x == lastCall[i].element
        IN /\ ~Recognized(x)
           /\ ~HasEventTime(x)
           /\ "timestamp" \in DOMAIN x

\* C7 (lexical order is chronological order): of two decoded events of the
\* same category that have an event time, the one with the earlier event
\* time has the key that sorts strictly first.
C7_LexicalOrder ==
    \A i \in DOMAIN events : \A j \in DOMAIN events :
        LET a == events[i]
            b == events[j]
        IN (/\ HasEventTime(a) /\ HasEventTime(b)
            /\ Get(a, "event_type") = Get(b, "event_type")
            /\ Earlier(EventTime(a), EventTime(b)))
           => LexLess(KeyNow(a), KeyNow(b))

\* C7 as amended: when the two event times carry the same UTC offset (none,
\* or a Z, counting as zero), the key of the earlier event sorts strictly
\* before the key of the later one unless the two times fall in the same
\* whole second, and then the two keys are equal.
C7_LexicalOrderToTheSecond ==
    \A i \in DOMAIN events : \A j \in DOMAIN events :
        LET a == events[i]
            b == events[j]
        IN (/\ HasEventTime(a) /\ HasEventTime(b)
            /\ Get(a, "event_type") = Get(b, "event_type")
            /\ EventTime(a).offset = EventTime(b).offset
            /\ Earlier(EventTime(a), EventTime(b)))
           => IF SameSecond(EventTime(a), EventTime(b))
              THEN KeyNow(a) = KeyNow(b)
              ELSE LexLess(KeyNow(a), KeyNow(b))

\* Two orders were decoded, one dated February with one-digit fields and one
\* dated November, and the key of one of them has been derived.
C7_Witness ==
    /\ lastCall # <<>>
    /\ \E i \in DOMAIN events : \E j \in DOMAIN events :
          /\ HasType(events[i], Order) /\ HasType(events[j], Order)
          /\ EventTime(events[i]).month = 2
          /\ EventTime(events[j]).month = 11
          /\ lastCall[1].element = events[i]
          /\ LexLess(lastCall[1].result.out[1].key, KeyNow(events[j]))

\* C8 (key format): for an event whose event-time field is a parsable ISO
\* string, with or without a final Z, the key derived is the key format
\* filled with the event's type and that event time.
C8_KeyFormat ==
    \A i \in DOMAIN lastCall :
        LET x == lastCall[i].element
        IN HasEventTime(x) =>
              /\ Len(lastCall[i].result.out) = 1
              /\ lastCall[i].result.out[1].key
                    = KeyFormat(Format(Get(x, "event_type")), EventTime(x))

=============================================================================
